---- MODULE Spec2Model ----
(***************************************************************************)
(* Model of unit-tests/unit-tests-post-processing.h: the metadata parser   *)
(* attrib_from_csv, the fixture loader load_test_configuration, the record *)
(* ppf_test_config with its reset(), and the diff profiler profile_diffs.  *)
(*                                                                         *)
(* Text is a sequence of one-character strings.  The floats of the        *)
(* configuration record are integers that count thousandths (0.25f is 250, *)
(* 0.001f is 1); the thresholds of profile_diffs are whole numbers and its *)
(* statistics are compared exactly, without taking the square root.        *)
(***************************************************************************)
EXTENDS Integers, Sequences, FiniteSets, TLC

VARIABLES
    \* ---- attrib_from_csv, the read loop (lines 125-144)
    lines,          \* the lines the metadata file was written from
    data,           \* std::ifstream data: the characters of the file
    pos,            \* the stream's read position (1-based index of the next character)
    eofbit,         \* the stream's eofbit
    failbit,        \* the stream's failbit
    key,            \* std::string key
    value,          \* std::string value
    dict,           \* std::map<std::string,std::string> dict
    invalid_line,   \* int invalid_line
    cpc,            \* position of attrib_from_csv: "loop" | "done"
    \* ---- profile_diffs (lines 328-388)
    distances,      \* std::vector<T>& distances, T a signed integer type
    max_allowed_std,\* const float max_allowed_std
    outlier,        \* const float outlier
    plot,           \* the lines written to the file plot_name
    check_failed,   \* the CHECKs that were evaluated and failed
    verdict,        \* the value returned
    ppc,            \* position of profile_diffs: "call" | "returned" | "fatal"
    \* ---- load_test_configuration (lines 179-326) and ppf_test_config
    present,        \* file_exists for each of the four required files
    fe,             \* std::vector<bool> fe
    warnings,       \* the WARN messages emitted, in order
    test_config,    \* ppf_test_config& test_config, the caller's record
    fixture,        \* what the call read from the two metadata files and the frame files
    evaluated,      \* the REQUIREs of the validation that were evaluated, in order
    reported,       \* the REQUIREs that were reported as failed
    lpc             \* position of the load: "check_files" | "load" | "validate" |
                    \* "skipped" (returned false) | "returned_true" | "parse_failed" |
                    \* "validation_failed" | "crash" | "reset_done"

loadVars == <<present, fe, warnings, test_config, fixture, evaluated, reported, lpc>>

diffVars == <<distances, max_allowed_std, outlier, plot, check_failed, verdict, ppc>>

csvVars == <<lines, data, pos, eofbit, failbit, key, value, dict, invalid_line, cpc>>

vars == <<csvVars, diffVars, loadVars>>

\* ------------------------------------------------------------------------
\* Bounds
MaxLines == 3
MaxPixels == 3

\* ------------------------------------------------------------------------
\* Text helpers
NL == "\n"
COMMA == ","
Whitespace == {" ", "\r", "\t", NL}

RECURSIVE Concat(_)
Concat(ss) == IF ss = <<>> THEN <<>> ELSE Head(ss) \o Concat(Tail(ss))

\* The lines a metadata file is written from: key,value lines with plain
\* numbers as values (one key repeated, one value padded with blanks and a
\* carriage return), a line with no comma and a blank line.
LineSet ==
    { <<"a", ",", "1">>,
      <<"b", ",", "2">>,
      <<"a", ",", "3">>,
      <<"b", ",", " ", "2", " ", "\r">>,
      <<"x">>,
      <<>> }

RECURSIVE SeqsUpTo(_, _)
SeqsUpTo(S, n) ==
    IF n = 0 THEN { <<>> }
    ELSE LET shorter == SeqsUpTo(S, n - 1)
         IN  shorter \cup { Append(s, x) : s \in { t \in shorter : Len(t) = n - 1 }, x \in S }

\* The file's characters: every line followed by its newline; the last newline
\* is there or not.
FileOf(ls, lastNL) ==
    LET full == Concat([i \in 1..Len(ls) |-> Append(ls[i], NL)])
    IN  IF lastNL \/ full = <<>> THEN full ELSE SubSeq(full, 1, Len(full) - 1)

\* ------------------------------------------------------------------------
\* std::getline(stream, str, delim) on the stream (data, p, eof, fail): the
\* sentry fails on a stream that is not good and leaves str alone; otherwise str
\* is erased and characters are taken up to the delimiter (dropped) or the end
\* of the file (eofbit); failbit when nothing at all was extracted.
DelimAt(p, delim) == { j \in p..Len(data) : data[j] = delim }

Min(S) == CHOOSE m \in S : \A n \in S : m <= n

GetLine(p, eof, fail, str, delim) ==
    IF eof \/ fail
    THEN [str |-> str, pos |-> p, eof |-> eof, fail |-> TRUE]
    ELSE IF DelimAt(p, delim) # {}
         THEN LET j == Min(DelimAt(p, delim))
              IN  [str |-> SubSeq(data, p, j - 1), pos |-> j + 1, eof |-> FALSE, fail |-> FALSE]
         ELSE [str |-> SubSeq(data, p, Len(data)), pos |-> Len(data) + 1,
               eof |-> TRUE, fail |-> p > Len(data)]

\* std::stringstream ss(s); ss >> s: leading whitespace is skipped and the next
\* run of non-whitespace characters is extracted; when there is none the
\* extraction fails and s keeps its content.
RECURSIVE SkipWs(_)
SkipWs(s) == IF s # <<>> /\ Head(s) \in Whitespace THEN SkipWs(Tail(s)) ELSE s

RECURSIVE TakeToken(_)
TakeToken(s) ==
    IF s = <<>> \/ Head(s) \in Whitespace THEN <<>> ELSE <<Head(s)>> \o TakeToken(Tail(s))

ExtractToken(s) == IF SkipWs(s) = <<>> THEN s ELSE TakeToken(SkipWs(s))

\* dict[k] = v
MapPut(d, k, v) == [x \in DOMAIN d \cup {k} |-> IF x = k THEN v ELSE d[x]]

EmptyMap == [x \in {} |-> <<>>]

Abs(x) == IF x < 0 THEN -x ELSE x

\* ------------------------------------------------------------------------
\* struct ppf_test_config.  A frame buffer is modelled by its length in bytes.
\* spatial_iterations has no initializer (line 20): a freshly constructed
\* record holds an indeterminate value there.
UninitValues == { 0, 7 }

Fresh(si) ==
    [ name |-> "",
      spatial_filter |-> FALSE, spatial_alpha |-> 0, spatial_delta |-> 0,
      spatial_iterations |-> si,
      temporal_filter |-> FALSE, temporal_alpha |-> 0, temporal_delta |-> 0,
      temporal_persistence |-> 0,
      holes_filter |-> FALSE, holes_filling_mode |-> 0,
      downsample_scale |-> 1,
      depth_units |-> 1, stereo_baseline |-> 0, focal_length |-> 0,
      input_res_x |-> 0, input_res_y |-> 0, output_res_x |-> 0, output_res_y |-> 0,
      frames_sequence_size |-> 1,
      input_frame_names |-> <<>>, output_frame_names |-> <<>>,
      _input_frames |-> <<>>, _output_frames |-> <<>> ]

\* ppf_test_config::reset(), lines 44-54.
Reset(c) ==
    [ c EXCEPT
        !.name = "",
        !.spatial_filter = FALSE, !.temporal_filter = FALSE, !.holes_filter = FALSE,
        !.spatial_alpha = 0, !.temporal_alpha = 0,
        !.spatial_iterations = 0, !.temporal_persistence = 0, !.holes_filling_mode = 0,
        !.spatial_delta = 0, !.temporal_delta = 0,
        !.input_res_x = 0, !.input_res_y = 0, !.output_res_x = 0, !.output_res_y = 0,
        !.downsample_scale = 1,
        !._input_frames = <<>>, !._output_frames = <<>> ]

\* ------------------------------------------------------------------------
\* The required files, in the iteration order of the std::map test_file_names
\* (sorted by key: Input_metadata, Input_pixels, Output_metadata, Output_pixels),
\* lines 184-189.
TestFileNames == << ".Input.csv", ".Input.raw", ".Output.csv", ".Output.raw" >>

RequiredFiles == { TestFileNames[i] : i \in DOMAIN TestFileNames }

\* const std::string test_name
TestName == "fixture"

\* ------------------------------------------------------------------------
\* attrib_from_csv, lines 146-176: the projection of the dictionary into a
\* record.  Here a dictionary maps an attribute name to the number its text
\* parses to (std::stoi, std::stof) and the key "0", "1", ... to a frame name.
\* The narrowing assignments are kept: uint8_t fields hold the value modulo 256.
U8(x) == x % 256

Lookup(d, k, default) == IF k \in DOMAIN d THEN d[k] ELSE default

\* The keys "0", "1", ... : std::to_string(i), from 0.
IndexKey(i) == ToString(i)

AttribFromCsv(d) ==
    LET n == Lookup(d, "Frames sequence length", 0)
        cfg == [ Fresh(0) EXCEPT
                   !.input_res_x = Lookup(d, "Resolution_x", 0),
                   !.input_res_y = Lookup(d, "Resolution_y", 0),
                   !.stereo_baseline = Lookup(d, "Stereo Baseline", 0),
                   !.depth_units = Lookup(d, "Depth Units", 0),
                   !.focal_length = Lookup(d, "Focal Length", 0),
                   !.downsample_scale = Lookup(d, "Scale", 1),
                   !.spatial_filter = ("Spatial Filter Params:" \in DOMAIN d),
                   !.spatial_alpha = Lookup(d, "SpatialAlpha", 0),
                   !.spatial_delta = U8(Lookup(d, "SpatialDelta", 0)),
                   !.spatial_iterations = Lookup(d, "SpatialIterations", 0),
                   !.temporal_filter = ("Temporal Filter Params:" \in DOMAIN d),
                   !.temporal_alpha = Lookup(d, "TemporalAlpha", 0),
                   !.temporal_delta = U8(Lookup(d, "TemporalDelta", 0)),
                   !.temporal_persistence = U8(Lookup(d, "TemporalPersistency", 0)),
                   !.holes_filter = ("Holes Filling Mode:" \in DOMAIN d),
                   !.holes_filling_mode = Lookup(d, "HolesFilling", 0),
                   !.frames_sequence_size = n ]
    IN  IF n = 0
        THEN [ status |-> "REQUIRE(cfg.frames_sequence_size)", cfg |-> cfg ]
        ELSE IF \E i \in 0..(n - 1) : IndexKey(i) \notin DOMAIN d
        THEN [ status |-> "dict.at: std::out_of_range", cfg |-> cfg ]
        ELSE [ status |-> "ok",
               cfg |-> [ cfg EXCEPT !.input_frame_names =
                                      [ i \in 1..n |-> << d[IndexKey(i - 1)], ".raw" >> ] ] ]

\* ------------------------------------------------------------------------
\* The fixtures: what the metadata files and the frame files of a fixture hold.
\* NumNames is the number of indexed frame-name keys ("0", "1", ...) a metadata
\* file holds.
NumNames == 2

NoKeys == [ k \in {} |-> 0 ]

IndexedNames(stem) == [ k \in { IndexKey(i) : i \in 0..(NumNames - 1) } |-> <<stem, k>> ]

\* "Frames sequence length": absent, or 1 .. NumNames + 1 (one more than the
\* names the file holds).
SequenceEntries == { NoKeys } \cup { ("Frames sequence length" :> n) : n \in 1..(NumNames + 1) }

\* Resolution_x / Resolution_y of the Input file; 65544 / s and 65540 / s do not
\* fit in 16 bits for s = 1.
InputGeometries ==
    { ("Resolution_y" :> 4),
      ("Resolution_x" :> 8) @@ ("Resolution_y" :> 4),
      ("Resolution_x" :> 65544) @@ ("Resolution_y" :> 4),
      ("Resolution_x" :> 8) @@ ("Resolution_y" :> 65540) }

\* Calibration in thousandths: valid; baseline and focal length zero; no depth units.
Calibrations ==
    { ("Stereo Baseline" :> 50) @@ ("Depth Units" :> 1) @@ ("Focal Length" :> 1900),
      ("Stereo Baseline" :> 0) @@ ("Depth Units" :> 1) @@ ("Focal Length" :> 0),
      ("Stereo Baseline" :> -50) @@ ("Focal Length" :> 1900) }

OutputGeometries ==
    { ("Resolution_x" :> x) @@ ("Resolution_y" :> 4) @@ ("Scale" :> s) : x \in {4, 8}, s \in {0, 1, 2} }

FiltersOff == NoKeys

SpatialParams(a, d, i) ==
    ("SpatialAlpha" :> a) @@ ("SpatialDelta" :> d) @@ ("SpatialIterations" :> i)

TemporalParams(a, d, p) ==
    ("TemporalAlpha" :> a) @@ ("TemporalDelta" :> d) @@ ("TemporalPersistency" :> p)

HolesParams(m) == ("HolesFilling" :> m)

Marker(k, on) == IF on THEN (k :> 1) ELSE NoKeys

\* The values around every bound of a range; 256 and 257 do not fit in uint8_t.
SpatialSettings ==
    { Marker("Spatial Filter Params:", on) @@ SpatialParams(a, d, i) :
        on \in BOOLEAN, a \in {249, 250, 1000, 1001}, d \in {0, 1, 50, 51, 257}, i \in {0, 1, 5, 6} }

TemporalSettings ==
    { Marker("Temporal Filter Params:", on) @@ TemporalParams(a, d, p) :
        on \in BOOLEAN, a \in {-1, 0, 1000, 1001}, d \in {0, 1, 100, 101}, p \in {-1, 0, 8, 9} }

HolesSettings ==
    { Marker("Holes Filling Mode:", on) @@ HolesParams(m) : on \in BOOLEAN, m \in {-1, 0, 2, 3} }

\* One filter varied at a time, the other two absent from the file; and a few
\* files with two filters present.
WideFilters ==
    SpatialSettings \cup TemporalSettings \cup HolesSettings
    \cup { s @@ t : s \in { Marker("Spatial Filter Params:", TRUE) @@ SpatialParams(a, 1, 1) : a \in {249, 250} },
                    t \in { Marker("Temporal Filter Params:", on) @@ TemporalParams(0, d, 0) : on \in BOOLEAN, d \in {100, 101} } }

NarrowFilters ==
    { FiltersOff,
      Marker("Spatial Filter Params:", TRUE) @@ SpatialParams(250, 1, 1),
      Marker("Spatial Filter Params:", TRUE) @@ SpatialParams(100, 51, 1) }

\* Byte lengths of the frame files: every input frame file of a fixture has
\* in_bytes bytes, every output frame file out_bytes.
InputFrameBytes == { 64, 524352, 1048640 }

OutputFrameBytes == { 32, 64 }

MakeFixture(g, c, n, og, f, on, ib, ob) ==
    [ input |-> g @@ c @@ n @@ IndexedNames("in"),
      output |-> og @@ f @@ on @@ IndexedNames("out"),
      in_bytes |-> ib, out_bytes |-> ob ]

\* Every geometry, calibration and sequence length with a few filter settings.
GeometryFixtures ==
    { MakeFixture(g, c, n, og, f, on, ib, ob) :
        g \in InputGeometries, c \in Calibrations, n \in SequenceEntries,
        og \in OutputGeometries, f \in NarrowFilters, on \in SequenceEntries,
        ib \in InputFrameBytes, ob \in OutputFrameBytes }

\* Every filter setting with a valid and an invalid geometry.
FilterFixtures ==
    { MakeFixture(("Resolution_x" :> 8) @@ ("Resolution_y" :> 4),
                  ("Stereo Baseline" :> 50) @@ ("Depth Units" :> 1) @@ ("Focal Length" :> 1900),
                  ("Frames sequence length" :> 1),
                  ("Resolution_x" :> x) @@ ("Resolution_y" :> 4) @@ ("Scale" :> 1),
                  f, ("Frames sequence length" :> 1), 64, 64) :
        x \in {4, 8}, f \in WideFilters }

Fixtures == GeometryFixtures \cup FilterFixtures

NoFixture == [ input |-> NoKeys, output |-> NoKeys, in_bytes |-> 0, out_bytes |-> 0 ]

\* ------------------------------------------------------------------------
\* load_test_configuration, lines 207-246: reset, parse both metadata files,
\* take the sequence, prefetch the frames, merge the fields.

\* Mutant of MergeMeta: the fields are not copied into the caller's record.
MergeNothing(t, im, om) == t

\* test_config.input_res_x = ... to test_config.temporal_persistence = ..., lines 228-246.
MergeMeta(t, im, om) ==
    [ t EXCEPT
        !.input_res_x = im.input_res_x,
        !.input_res_y = im.input_res_y,
        !.output_res_x = om.input_res_x,
        !.output_res_y = om.input_res_y,
        !.depth_units = im.depth_units,
        !.focal_length = im.focal_length,
        !.stereo_baseline = im.stereo_baseline * 1000,
        !.downsample_scale = om.downsample_scale,
        !.spatial_filter = om.spatial_filter,
        !.spatial_alpha = om.spatial_alpha,
        !.spatial_delta = om.spatial_delta,
        !.spatial_iterations = om.spatial_iterations,
        !.holes_filter = om.holes_filter,
        !.holes_filling_mode = om.holes_filling_mode,
        !.temporal_filter = om.temporal_filter,
        !.temporal_alpha = om.temporal_alpha,
        !.temporal_delta = om.temporal_delta,
        !.temporal_persistence = om.temporal_persistence ]

\* test_config.frames_sequence_size / input_frame_names / output_frame_names, lines 213-220.
TakeSequence(t, im, om) ==
    [ t EXCEPT
        !.frames_sequence_size = im.frames_sequence_size,
        !.input_frame_names = im.input_frame_names,
        !.output_frame_names = om.input_frame_names ]

\* if (test_config.frames_sequence_size > 50) WARN(...), lines 215-218.
SequenceWarnLimit == 50

SequenceWarning(t) ==
    IF t.frames_sequence_size > SequenceWarnLimit
    THEN << <<"The input sequence is too long", "">> >>
    ELSE <<>>

\* What output_frame_names[i] does for an i past the end of the vector
\* (undefined behaviour, line 225): the run crashes; or the read yields a name
\* no file has and load_from_binary throws allocating size_t(-1) bytes; or it
\* yields the name of some file, whose bytes are loaded.
PrefetchUB == { "crash", "throw", "bytes" }

StrayBytes == 64

\* The prefetch loop, lines 222-226.  input_frame_names has
\* frames_sequence_size elements; output_frame_names has as many as the Output
\* file declares.
Prefetch(t, fx, ub) ==
    LET n == t.frames_sequence_size
        m == Len(t.output_frame_names)
    IN  IF n <= m
        THEN [ pc |-> "validate",
               cfg |-> [ t EXCEPT !._input_frames = [ i \in 1..n |-> fx.in_bytes ],
                                  !._output_frames = [ i \in 1..n |-> fx.out_bytes ] ] ]
        ELSE IF ub = "bytes"
        THEN [ pc |-> "validate",
               cfg |-> [ t EXCEPT !._input_frames = [ i \in 1..n |-> fx.in_bytes ],
                                  !._output_frames =
                                      [ i \in 1..n |-> IF i <= m THEN fx.out_bytes ELSE StrayBytes ] ] ]
        ELSE [ pc |-> IF ub = "crash" THEN "crash" ELSE "parse_failed",
               cfg |-> [ t EXCEPT !._input_frames = [ i \in 1..(m + 1) |-> fx.in_bytes ],
                                  !._output_frames = [ i \in 1..m |-> fx.out_bytes ] ] ]

LoadResult(c, fx, ub) ==
    LET t0 == [ Reset(c) EXCEPT !.name = TestName ]
        im == AttribFromCsv(fx.input)
        om == AttribFromCsv(fx.output)
    IN  IF im.status # "ok" \/ om.status # "ok"
        THEN [ pc |-> "parse_failed", cfg |-> t0, warn |-> <<>> ]
        ELSE LET t1 == TakeSequence(t0, im.cfg, om.cfg)
                 pf == Prefetch(t1, fx, ub)
             IN  [ pc |-> pf.pc,
                   cfg |-> IF pf.pc = "validate" THEN MergeMeta(pf.cfg, im.cfg, om.cfg) ELSE pf.cfg,
                   warn |-> SequenceWarning(t1) ]

\* ------------------------------------------------------------------------
\* The sanity tests, lines 273-323.

\* uint16_t(dim / scale) + 3, /= 4, *= 4 (lines 275-281).  Division by zero is
\* undefined: the run traps (see Validate) or goes on with the quotient 0 of a
\* divide instruction that does not trap.
TwoPow16 == 65536

PaddedDim(dim, scale) ==
    LET q == IF scale = 0 THEN 0 ELSE dim \div scale
    IN  (((q % TwoPow16) + 3) \div 4) * 4

Check(text, i, ok) == [ name |-> <<text, i>>, ok |-> ok ]

GeometryChecks(c) ==
    << Check("output_res_x == _padded_width", 0,
             c.output_res_x = PaddedDim(c.input_res_x, c.downsample_scale)),
       Check("output_res_y == _padded_height", 0,
             c.output_res_y = PaddedDim(c.input_res_y, c.downsample_scale)),
       Check("input_res_x > 0", 0, c.input_res_x > 0),
       Check("input_res_y > 0", 0, c.input_res_y > 0),
       Check("output_res_x > 0", 0, c.output_res_x > 0),
       Check("output_res_y > 0", 0, c.output_res_y > 0) >>

CalibrationChecks(c) ==
    << Check("fabs(stereo_baseline) > 0", 0, Abs(c.stereo_baseline) > 0),
       Check("depth_units > 0", 0, c.depth_units > 0),
       Check("focal_length > 0", 0, c.focal_length > 0),
       Check("frames_sequence_size > 0", 0, c.frames_sequence_size > 0) >>

FrameChecks(c) ==
    [ j \in 1..(2 * c.frames_sequence_size) |->
        LET i == (j + 1) \div 2
        IN  IF j % 2 = 1
            THEN Check("input_res_x * input_res_y * 2 == _input_frames[i].size()", i - 1,
                       c.input_res_x * c.input_res_y * 2 = c._input_frames[i])
            ELSE Check("output_res_x * output_res_y * 2 == _output_frames[i].size()", i - 1,
                       c.output_res_x * c.output_res_y * 2 = c._output_frames[i]) ]

\* Mutant of SpatialChecks: the ranges are tested whether or not the filter is enabled.
SpatialChecksUnguarded(c) ==
    << Check("spatial_alpha >= 0.25f", 0, c.spatial_alpha >= 250),
       Check("spatial_alpha <= 1.f", 0, c.spatial_alpha <= 1000),
       Check("spatial_delta >= 1", 0, c.spatial_delta >= 1),
       Check("spatial_delta <= 50", 0, c.spatial_delta <= 50),
       Check("spatial_iterations >= 1", 0, c.spatial_iterations >= 1),
       Check("spatial_iterations <= 5", 0, c.spatial_iterations <= 5) >>

SpatialChecks(c) ==
    IF c.spatial_filter
    THEN << Check("spatial_alpha >= 0.25f", 0, c.spatial_alpha >= 250),
            Check("spatial_alpha <= 1.f", 0, c.spatial_alpha <= 1000),
            Check("spatial_delta >= 1", 0, c.spatial_delta >= 1),
            Check("spatial_delta <= 50", 0, c.spatial_delta <= 50),
            Check("spatial_iterations >= 1", 0, c.spatial_iterations >= 1),
            Check("spatial_iterations <= 5", 0, c.spatial_iterations <= 5) >>
    ELSE <<>>

TemporalChecks(c) ==
    IF c.temporal_filter
    THEN << Check("temporal_alpha >= 0.f", 0, c.temporal_alpha >= 0),
            Check("temporal_alpha <= 1.f", 0, c.temporal_alpha <= 1000),
            Check("temporal_delta >= 1", 0, c.temporal_delta >= 1),
            Check("temporal_delta <= 100", 0, c.temporal_delta <= 100),
            Check("temporal_persistence >= 0", 0, c.temporal_persistence >= 0),
            Check("temporal_persistence <= 8", 0, c.temporal_persistence <= 8) >>
    ELSE <<>>

HolesChecks(c) ==
    IF c.holes_filter
    THEN << Check("holes_filling_mode >= 0", 0, c.holes_filling_mode >= 0),
            Check("holes_filling_mode <= 2", 0, c.holes_filling_mode <= 2) >>
    ELSE <<>>

ValidationChecks(c) ==
    GeometryChecks(c) \o CalibrationChecks(c) \o FrameChecks(c)
    \o SpatialChecks(c) \o TemporalChecks(c) \o HolesChecks(c)

\* Mutant of Require: every check is evaluated and every failure reported (CHECK).
RequireContinuing(checks) ==
    LET bad == { i \in DOMAIN checks : ~checks[i].ok }
    IN  [ passed |-> bad = {},
          evaluated |-> [ i \in DOMAIN checks |-> checks[i].name ],
          reported |-> { checks[i].name : i \in bad } ]

\* A run of REQUIREs: the first one that fails is reported and throws, which
\* ends the test case; the ones after it are not evaluated.
Require(checks) ==
    LET bad == { i \in DOMAIN checks : ~checks[i].ok }
    IN  IF bad = {}
        THEN [ passed |-> TRUE,
               evaluated |-> [ i \in DOMAIN checks |-> checks[i].name ],
               reported |-> {} ]
        ELSE [ passed |-> FALSE,
               evaluated |-> [ i \in 1..Min(bad) |-> checks[i].name ],
               reported |-> { checks[Min(bad)].name } ]


\* ------------------------------------------------------------------------
\* attrib_from_csv: the state at the top of while (true)
\* ------------------------------------------------------------------------
\* The parts that take no step in a specification of another part.
LoadIdle ==
    /\ present = [ f \in RequiredFiles |-> TRUE ]
    /\ fe = <<>>
    /\ warnings = <<>>
    /\ test_config = Fresh(0)
    /\ fixture = NoFixture
    /\ evaluated = <<>>
    /\ reported = {}
    /\ lpc = "idle"

CsvIdle ==
    /\ lines = <<>>
    /\ data = <<>>
    /\ pos = 1
    /\ eofbit = FALSE
    /\ failbit = FALSE
    /\ key = <<>>
    /\ value = <<>>
    /\ dict = EmptyMap
    /\ invalid_line = 0
    /\ cpc = "idle"

DiffIdle ==
    /\ distances = <<>>
    /\ max_allowed_std = 0
    /\ outlier = 0
    /\ plot = <<>>
    /\ check_failed = {}
    /\ verdict = FALSE
    /\ ppc = "idle"

InitCsv ==
    /\ DiffIdle
    /\ LoadIdle
    /\ lines \in SeqsUpTo(LineSet, MaxLines)
    /\ \E lastNL \in BOOLEAN : data = FileOf(lines, lastNL)
    /\ pos = 1
    /\ eofbit = FALSE
    /\ failbit = FALSE
    /\ key = <<>>
    /\ value = <<>>
    /\ dict = EmptyMap
    /\ invalid_line = 0
    /\ cpc = "loop"

\* One pass of the loop body, lines 134-143.
ReadPair ==
    /\ cpc = "loop"
    /\ LET k == GetLine(pos, eofbit, failbit, key, COMMA)
           n == IF k.fail THEN invalid_line + 1 ELSE invalid_line
           v == GetLine(k.pos, k.eof, k.fail, value, NL)
           t == ExtractToken(v.str)
       IN  /\ key' = k.str
           /\ value' = t
           /\ pos' = v.pos
           /\ eofbit' = v.eof
           /\ failbit' = v.fail
           /\ invalid_line' = n
           /\ dict' = MapPut(dict, k.str, t)
           /\ cpc' = IF n > 1 THEN "done" ELSE "loop"
    /\ UNCHANGED <<lines, data>>
    /\ UNCHANGED <<diffVars, loadVars>>

NextCsv == ReadPair

SpecCsv == InitCsv /\ [][NextCsv]_vars

\* ------------------------------------------------------------------------
\* What the claims about the read loop speak of: the lines of the file.
WellFormedLine(l) == \E i \in 1..Len(l) : l[i] = COMMA

FirstComma(l) == Min({ i \in 1..Len(l) : l[i] = COMMA })

KeyOfLine(l) == SubSeq(l, 1, FirstComma(l) - 1)

ValueOfLine(l) == SubSeq(l, FirstComma(l) + 1, Len(l))

RECURSIVE DropTrailingWs(_)
DropTrailingWs(s) ==
    IF s # <<>> /\ s[Len(s)] \in Whitespace THEN DropTrailingWs(SubSeq(s, 1, Len(s) - 1)) ELSE s

Trimmed(s) == DropTrailingWs(SkipWs(s))

\* The offset in data of the newline that ends line k.
RECURSIVE LineEnd(_)
LineEnd(k) == IF k = 0 THEN 0 ELSE LineEnd(k - 1) + Len(lines[k]) + 1

\* The first two consecutive lines with no comma, if any: the end-of-data point.
StrikePairs == { k \in 1..(Len(lines) - 1) : ~WellFormedLine(lines[k]) /\ ~WellFormedLine(lines[k + 1]) }

\* The lines that precede the end-of-data point.
LinesBeforeEnd == IF StrikePairs = {} THEN 1..Len(lines) ELSE 1..(Min(StrikePairs) - 1)

\* C7: the read loop stops at two consecutive lines with no comma, wherever they
\* are in the file: a key,value line that follows them is not read.
C7_TwoStrikesStop ==
    cpc = "done" =>
        \A k \in StrikePairs :
            \A j \in (k + 2)..Len(lines) :
                WellFormedLine(lines[j]) => pos <= LineEnd(j - 1) + 1

\* C10: after the loop every well-formed line before the end-of-data point has
\* its key (the text before its first comma) in the dictionary, mapped to the
\* trimmed value of the last such line with that key.
C10_DictHoldsPairs ==
    cpc = "done" =>
        \A i \in LinesBeforeEnd :
            WellFormedLine(lines[i]) =>
                LET k == KeyOfLine(lines[i])
                    last == CHOOSE j \in LinesBeforeEnd :
                                /\ WellFormedLine(lines[j]) /\ KeyOfLine(lines[j]) = k
                                /\ \A m \in LinesBeforeEnd :
                                       (WellFormedLine(lines[m]) /\ KeyOfLine(lines[m]) = k) => m <= j
                IN  k \in DOMAIN dict /\ dict[k] = Trimmed(ValueOfLine(lines[last]))

\* ------------------------------------------------------------------------
\* profile_diffs<T> for a signed integer T.
DiffValues == { -6, -1, 0, 1, 6 }
OutlierValues == { 0, 5 }
StdValues == { 0, 3 }

RECURSIVE SumSeq(_)
SumSeq(s) == IF s = <<>> THEN 0 ELSE Head(s) + SumSeq(Tail(s))

\* std::max_element: the largest element by operator<, line 352.
MaxElement(d) == CHOOSE m \in { d[i] : i \in DOMAIN d } : \A i \in DOMAIN d : d[i] <= m

\* auto max_val = (max != distances.end()) ? *max : 0, line 354.
MaxVal(d) == IF d = <<>> THEN 0 ELSE MaxElement(d)

\* standard_deviation <= max_allowed_std, lines 339-362 and 382: with N elements
\* of sum S, mean = S/N, e = sum of (x - mean)^2 and standard_deviation =
\* sqrt(e/N); both sides are multiplied by N^3 and squared.
StdWithin(d, m) ==
    LET N == Len(d)
        S == SumSeq(d)
        e3 == SumSeq([i \in DOMAIN d |-> (N * d[i] - S) * (N * d[i] - S)])
    IN  m >= 0 /\ e3 <= N * N * N * m * m

\* fabs(max_val) <= outlier, lines 383 and 387.
OutlierWithin(d, o) == Abs(MaxVal(d)) <= o

InitDiff ==
    /\ CsvIdle
    /\ LoadIdle
    /\ distances \in SeqsUpTo(DiffValues, MaxPixels)
    /\ max_allowed_std \in StdValues
    /\ outlier \in OutlierValues
    /\ plot = <<>>
    /\ check_failed = {}
    /\ verdict = FALSE
    /\ ppc = "call"

\* The whole call: the values are written to the plot file, REQUIRE stops the
\* test on an empty sequence, both CHECKs are evaluated and the conjunction of
\* the two conditions is returned.
ProfileDiffs ==
    /\ ppc = "call"
    /\ plot' = distances
    /\ IF distances = <<>>
       THEN /\ ppc' = "fatal"
            /\ UNCHANGED <<check_failed, verdict>>
       ELSE /\ check_failed' =
                   (IF StdWithin(distances, max_allowed_std) THEN {} ELSE {"standard_deviation"})
                   \cup (IF OutlierWithin(distances, outlier) THEN {} ELSE {"outlier"})
            /\ verdict' = (OutlierWithin(distances, outlier) /\ StdWithin(distances, max_allowed_std))
            /\ ppc' = "returned"
    /\ UNCHANGED <<distances, max_allowed_std, outlier>>
    /\ UNCHANGED <<csvVars, loadVars>>

NextDiff == ProfileDiffs

SpecDiff == InitDiff /\ [][NextDiff]_vars

\* C9: when profile_diffs returns true, no element of the sequence has an
\* absolute value above outlier.
C9_OutlierBoundsMagnitude ==
    (ppc = "returned" /\ verdict) => \A i \in DOMAIN distances : Abs(distances[i]) <= outlier

\* ------------------------------------------------------------------------
\* load_test_configuration as a state machine.
Init ==
    /\ CsvIdle
    /\ DiffIdle
    /\ present \in [ RequiredFiles -> BOOLEAN ]
    /\ fe = <<>>
    /\ warnings = <<>>
    /\ test_config \in { Fresh(si) : si \in UninitValues }
    /\ fixture = NoFixture
    /\ evaluated = <<>>
    /\ reported = {}
    /\ lpc = "check_files"

\* Mutant of CheckFile: the call returns false at the first absent file.
CheckFileStopAtFirst ==
    /\ lpc = "check_files"
    /\ Len(fe) < Len(TestFileNames)
    /\ LET f == TestFileNames[Len(fe) + 1]
       IN  /\ fe' = Append(fe, present[f])
           /\ warnings' = IF present[f]
                          THEN warnings
                          ELSE Append(warnings, <<"A required test file is not present", f>>)
           /\ lpc' = IF present[f] THEN lpc ELSE "skipped"
    /\ UNCHANGED <<present, test_config, fixture, evaluated, reported>>
    /\ UNCHANGED <<csvVars, diffVars>>

\* One pass of the loop over test_file_names, lines 193-202.
CheckFile ==
    /\ lpc = "check_files"
    /\ Len(fe) < Len(TestFileNames)
    /\ LET f == TestFileNames[Len(fe) + 1]
       IN  /\ fe' = Append(fe, present[f])
           /\ warnings' = IF present[f]
                          THEN warnings
                          ELSE Append(warnings, <<"A required test file is not present", f>>)
    /\ UNCHANGED <<present, test_config, fixture, evaluated, reported, lpc>>
    /\ UNCHANGED <<csvVars, diffVars>>

\* if (std::find(fe.begin(), fe.end(), false) != fe.end()) return false, lines 204-205.
FilesChecked ==
    /\ lpc = "check_files"
    /\ Len(fe) = Len(TestFileNames)
    /\ lpc' = IF \E i \in DOMAIN fe : ~fe[i] THEN "skipped" ELSE "load"
    /\ UNCHANGED <<present, fe, warnings, test_config, fixture, evaluated, reported>>
    /\ UNCHANGED <<csvVars, diffVars>>

\* Lines 207-246, with the files' content read here.
LoadFixture ==
    /\ lpc = "load"
    /\ \E fx \in Fixtures, ub \in PrefetchUB :
          LET r == LoadResult(test_config, fx, ub)
          IN  /\ fixture' = fx
              /\ test_config' = r.cfg
              /\ warnings' = warnings \o r.warn
              /\ lpc' = r.pc
    /\ UNCHANGED <<present, fe, evaluated, reported>>
    /\ UNCHANGED <<csvVars, diffVars>>

\* Lines 273-325.  A division by zero at line 275 either traps or goes on.
DivisionUB == { "trap", "goes on" }

Validate ==
    /\ lpc = "validate"
    /\ \E ub \in DivisionUB :
          IF test_config.downsample_scale = 0 /\ ub = "trap"
          THEN /\ lpc' = "crash"
               /\ UNCHANGED <<evaluated, reported>>
          ELSE LET r == Require(ValidationChecks(test_config))
               IN  /\ evaluated' = r.evaluated
                   /\ reported' = r.reported
                   /\ lpc' = IF r.passed THEN "returned_true" ELSE "validation_failed"
    /\ UNCHANGED <<present, fe, warnings, test_config, fixture>>
    /\ UNCHANGED <<csvVars, diffVars>>

\* The caller calls test_config.reset() on the record a load has returned.
CallerReset ==
    /\ lpc \in { "returned_true", "skipped" }
    /\ test_config' = Reset(test_config)
    /\ lpc' = "reset_done"
    /\ UNCHANGED <<present, fe, warnings, fixture, evaluated, reported>>
    /\ UNCHANGED <<csvVars, diffVars>>

Next == CheckFile \/ FilesChecked \/ LoadFixture \/ Validate \/ CallerReset

Spec == Init /\ [][Next]_vars

\* ------------------------------------------------------------------------
\* Claims about load_test_configuration and ppf_test_config.

\* C1: after a load that returns true, frames_sequence_size is the length of
\* both name lists and of both buffer lists.
C1_SequenceLengths ==
    lpc = "returned_true" =>
        /\ test_config.frames_sequence_size = Len(test_config.input_frame_names)
        /\ test_config.frames_sequence_size = Len(test_config.output_frame_names)
        /\ test_config.frames_sequence_size = Len(test_config._input_frames)
        /\ test_config.frames_sequence_size = Len(test_config._output_frames)

AbsentFiles == { f \in RequiredFiles : ~present[f] }

\* C2: when at least one required file is absent, the call checks all four
\* files, warns once for every absent file, fails no REQUIRE, loads nothing and
\* returns false.
C2_MissingFilesSkip ==
    (AbsentFiles # {} /\ lpc # "check_files") =>
        /\ lpc \in { "skipped", "reset_done" }
        /\ Len(fe) = Cardinality(RequiredFiles)
        /\ Len(warnings) = Cardinality(AbsentFiles)
        /\ \A f \in AbsentFiles :
              \E i \in DOMAIN warnings : warnings[i] = <<"A required test file is not present", f>>
        /\ reported = {}
        /\ fixture = NoFixture

\* The first and the last file of the loop are absent and the call has returned false.
C2_Witness ==
    /\ lpc = "skipped"
    /\ ~present[TestFileNames[1]]
    /\ ~present[TestFileNames[4]]
    /\ Len(warnings) >= 2

\* C3: after a load that returns true, each output dimension is the input
\* dimension divided by the scale, plus 3, rounded down to a multiple of 4, over
\* the integers.
C3_OutputGeometry ==
    lpc = "returned_true" =>
        /\ test_config.output_res_x =
               (((test_config.input_res_x \div test_config.downsample_scale) + 3) \div 4) * 4
        /\ test_config.output_res_y =
               (((test_config.input_res_y \div test_config.downsample_scale) + 3) \div 4) * 4

SpatialOutOfRange(c) ==
    \/ c.spatial_alpha < 250 \/ c.spatial_alpha > 1000
    \/ c.spatial_delta < 1 \/ c.spatial_delta > 50
    \/ c.spatial_iterations < 1 \/ c.spatial_iterations > 5

TemporalOutOfRange(c) ==
    \/ c.temporal_alpha < 0 \/ c.temporal_alpha > 1000
    \/ c.temporal_delta < 1 \/ c.temporal_delta > 100
    \/ c.temporal_persistence < 0 \/ c.temporal_persistence > 8

HolesOutOfRange(c) == c.holes_filling_mode < 0 \/ c.holes_filling_mode > 2

EnabledFilterOutOfRange(c) ==
    \/ c.spatial_filter /\ SpatialOutOfRange(c)
    \/ c.temporal_filter /\ TemporalOutOfRange(c)
    \/ c.holes_filter /\ HolesOutOfRange(c)

StructuralChecksPass(c) ==
    LET checks == GeometryChecks(c) \o CalibrationChecks(c) \o FrameChecks(c)
    IN  \A i \in DOMAIN checks : checks[i].ok

\* C4: for a fixture that passes the geometry, calibration and buffer-size
\* checks, the validation fails exactly when an enabled filter has a parameter
\* of the record outside its range; a disabled filter's parameters never fail it.
C4_FilterRanges ==
    (lpc \in { "returned_true", "validation_failed" } /\ StructuralChecksPass(test_config)) =>
        (lpc = "validation_failed" <=> EnabledFilterOutOfRange(test_config))

\* The spatial filter is enabled with alpha below 0.25 and the validation has
\* failed on it, while the disabled temporal filter holds a delta above 100.
C4_Witness ==
    /\ lpc = "validation_failed"
    /\ StructuralChecksPass(test_config)
    /\ test_config.spatial_filter /\ test_config.spatial_alpha = 249
    /\ ~test_config.temporal_filter /\ test_config.temporal_delta = 101
    /\ reported = { <<"spatial_alpha >= 0.25f", 0>> }

ViolatedChecks(c) ==
    LET checks == ValidationChecks(c)
    IN  { checks[i].name : i \in { j \in DOMAIN checks : ~checks[j].ok } }

\* C5 (as claimed): when the validation fails, every violated check has been
\* evaluated and reported in that call.
C5_AllViolationsReported ==
    lpc = "validation_failed" => reported = ViolatedChecks(test_config)

\* C5 (amended): when the validation fails, the one check reported is the first
\* violated check in source order, and the checks after it were not evaluated.
C5_FirstViolationOnly ==
    lpc = "validation_failed" =>
        LET checks == ValidationChecks(test_config)
            bad == { j \in DOMAIN checks : ~checks[j].ok }
        IN  /\ bad # {}
            /\ reported = { checks[Min(bad)].name }
            /\ Len(evaluated) = Min(bad)
            /\ \A j \in DOMAIN evaluated : evaluated[j] = checks[j].name

\* A failed validation of a record that violates a geometry check and at least
\* one more check.
C5_Witness ==
    /\ lpc = "validation_failed"
    /\ Cardinality(ViolatedChecks(test_config)) >= 2
    /\ <<"output_res_x == _padded_width", 0>> \in ViolatedChecks(test_config)

\* C6 (as claimed): when the validation fails, the caller's record holds
\* nothing of the failed fixture: it is a freshly constructed or reset record.
C6_NoPartialConfig ==
    lpc = "validation_failed" => \E si \in UninitValues \cup {0} : test_config = Fresh(si)

\* C6 (amended): when the validation fails, the caller's record already holds
\* the failed fixture's name, geometry, calibration, filter fields, frame names
\* and frame buffers.
C6_ConfigPopulatedOnFailure ==
    lpc = "validation_failed" =>
        LET c == test_config
            i == fixture.input
            o == fixture.output
        IN  /\ c.name = TestName
            /\ c.input_res_x = Lookup(i, "Resolution_x", 0)
            /\ c.input_res_y = Lookup(i, "Resolution_y", 0)
            /\ c.output_res_x = Lookup(o, "Resolution_x", 0)
            /\ c.output_res_y = Lookup(o, "Resolution_y", 0)
            /\ c.downsample_scale = Lookup(o, "Scale", 1)
            /\ c.depth_units = Lookup(i, "Depth Units", 0)
            /\ c.focal_length = Lookup(i, "Focal Length", 0)
            /\ c.stereo_baseline = 1000 * Lookup(i, "Stereo Baseline", 0)
            /\ c.spatial_filter = ("Spatial Filter Params:" \in DOMAIN o)
            /\ c.temporal_filter = ("Temporal Filter Params:" \in DOMAIN o)
            /\ c.holes_filter = ("Holes Filling Mode:" \in DOMAIN o)
            /\ c.spatial_alpha = Lookup(o, "SpatialAlpha", 0)
            /\ c.spatial_delta = Lookup(o, "SpatialDelta", 0) % 256
            /\ c.spatial_iterations = Lookup(o, "SpatialIterations", 0)
            /\ c.temporal_alpha = Lookup(o, "TemporalAlpha", 0)
            /\ c.temporal_delta = Lookup(o, "TemporalDelta", 0) % 256
            /\ c.temporal_persistence = Lookup(o, "TemporalPersistency", 0) % 256
            /\ c.holes_filling_mode = Lookup(o, "HolesFilling", 0)
            /\ c.frames_sequence_size = i["Frames sequence length"]
            /\ Len(c.input_frame_names) = i["Frames sequence length"]
            /\ Len(c.output_frame_names) = o["Frames sequence length"]
            /\ Len(c._input_frames) = c.frames_sequence_size
            /\ Len(c._output_frames) = c.frames_sequence_size
            /\ \A k \in DOMAIN c._input_frames : c._input_frames[k] = fixture.in_bytes

\* A failed validation of a fixture with a geometry the check rejects, two
\* frames and the spatial filter enabled.
C6_Witness ==
    /\ lpc = "validation_failed"
    /\ <<"output_res_x == _padded_width", 0>> \in reported
    /\ test_config.frames_sequence_size = 2
    /\ test_config.spatial_filter

\* C8: after reset() the record equals a freshly constructed one, field by
\* field (spatial_iterations, which a fresh record leaves indeterminate, aside).
C8_ResetRestoresFresh ==
    lpc = "reset_done" =>
        test_config = [ Fresh(0) EXCEPT !.spatial_iterations = test_config.spatial_iterations ]

====
